---- MODULE Spec2Model ----
(***************************************************************************)
(* Model of the Pwinty REST client (src/pwinty/__init__.py).               *)
(*                                                                         *)
(* The client holds a base URL and two authentication headers, and every   *)
(* endpoint method is one synchronous call of the generic dispatch         *)
(* operation _call_api (here: call_api) followed by endpoint-specific      *)
(* post-processing.  One action of the model is one whole call of a public *)
(* method; the server's answer, the file system's answer to open() and the *)
(* runtime's decision to finalize an unreferenced file handle are inputs   *)
(* of the call, chosen with \E.                                            *)
(***************************************************************************)
EXTENDS Integers, Sequences, FiniteSets, TLC

VARIABLES
    ctor,       \* the arguments the client was constructed with
    api,        \* self.api
    headers,    \* self.headers
    pc,         \* "idle": the caller may call; "done": a call has just exited
    call,       \* what the call that has just exited did (NoCall when idle)
    openFiles   \* file handles opened by add_photo and not closed

vars == <<ctor, api, headers, pc, call, openFiles>>

----------------------------------------------------------------------------
(* Python values: None, a bool, an int or a str.  A files dict             *)
(* {'file': open(p)} is a further shape, used only for the files argument  *)
(* of the request; Omitted stands for an argument the caller did not pass. *)

None == [t |-> "none", i |-> 0, s |-> ""]
IntV(n) == [t |-> "int", i |-> n, s |-> ""]
StrV(x) == [t |-> "str", i |-> 0, s |-> x]
BoolV(b) == [t |-> "bool", i |-> IF b THEN 1 ELSE 0, s |-> ""]
FileDict(p) == [t |-> "filedict", i |-> 0, s |-> p]
Omitted == [t |-> "omitted", i |-> 0, s |-> ""]

\* The value a parameter with default d takes.
Param(arg, d) == IF arg = Omitted THEN d ELSE arg

\* Python truth value of a value (used by `or` and by `if imgfile:`).
Truthy(v) ==
    \/ v.t \in {"int", "bool"} /\ v.i # 0
    \/ v.t = "str" /\ v.s # ""
    \/ v.t = "filedict"

\* Python's  a or b.
Or(a, b) == IF Truthy(a) THEN a ELSE b

\* '{0}'.format(v)
Format(v) ==
    CASE v.t = "int" -> ToString(v.i)
      [] v.t = "str" -> v.s
      [] OTHER -> "None"

----------------------------------------------------------------------------
(* Inputs.                                                                 *)

MaxOpenFiles == 2       \* descriptor limit of the process: open() fails beyond it

MerchantIds == {"123456", "M2"}
ApiKeys == {"7890123"}
Versions == {Omitted, StrV("v3"), StrV("")}
Sandboxes == {Omitted, BoolV(TRUE), BoolV(FALSE)}

Verbs == {"GET", "POST", "PUT", "DELETE"}
OrderIds == {IntV(23), StrV("A1")}
PhotoIds == {IntV(5)}

Statuses == {200, 302, 400, 401, 403, 404, 500, 503}

\* Response bodies, by what response.json() makes of them.
\*   valid    the text parses as JSON (json() raises ValueError otherwise)
\*   top      the decoded top-level value: "object" or "array"
\*   err      the value under the key 'Error': "absent", "null", "object", "string"
\*   errEmpty that value is empty ({} or '')
\*   hasMsg   'Message' in error  is true
\*   msg      error['Message'] when error is an object holding that key
Body(valid, top, err, errEmpty, hasMsg, msg) ==
    [valid |-> valid, top |-> top, err |-> err, errEmpty |-> errEmpty,
     hasMsg |-> hasMsg, msg |-> msg]

NotJson == Body(FALSE, "none", "absent", TRUE, FALSE, "")
JsonArray == Body(TRUE, "array", "absent", TRUE, FALSE, "")
NoErrorKey == Body(TRUE, "object", "absent", TRUE, FALSE, "")
ErrorNull == Body(TRUE, "object", "null", TRUE, FALSE, "")
ErrorEmpty == Body(TRUE, "object", "object", TRUE, FALSE, "")
ErrorNoMessage == Body(TRUE, "object", "object", FALSE, FALSE, "")
ErrorMessage == Body(TRUE, "object", "object", FALSE, TRUE, "Order not valid")
ErrorString == Body(TRUE, "object", "string", FALSE, TRUE, "")

Bodies == {NotJson, JsonArray, NoErrorKey, ErrorNull, ErrorEmpty,
           ErrorNoMessage, ErrorMessage, ErrorString}

\* What the transport hands back: a response, or an exception of its own.
TransportFailure == [net |-> "ConnectionError", status_code |-> 0, body |-> NotJson]
Responses == [net : {"ok"}, status_code : Statuses, body : Bodies]
                \cup {TransportFailure}

----------------------------------------------------------------------------
(* Construction: Pwinty.__init__                                           *)

\* if version is None: version = 'v2'
ResolveVersion(version) == IF version = None THEN StrV("v2") ELSE version

\* Mutation of BaseUrl: the two host prefixes exchanged.
BaseUrl_hosts_swapped(version, sandbox) ==
    "https://" \o (IF Truthy(sandbox) THEN "api" ELSE "sandbox") \o ".pwinty.com/"
        \o Format(ResolveVersion(version))

\* 'https://{0}.pwinty.com/{1}'.format('sandbox' if sandbox else 'api', version)
BaseUrl(version, sandbox) ==
    "https://" \o (IF Truthy(sandbox) THEN "sandbox" ELSE "api") \o ".pwinty.com/"
        \o Format(ResolveVersion(version))

\* Mutation of AuthHeaders: the two values under each other's name.
AuthHeaders_swapped(merchant_id, apikey) ==
    ("X-Pwinty-REST-API-Key" :> merchant_id) @@ ("X-Pwinty-MerchantId" :> apikey)

\* self.headers
AuthHeaders(merchant_id, apikey) ==
    ("X-Pwinty-REST-API-Key" :> apikey) @@ ("X-Pwinty-MerchantId" :> merchant_id)

----------------------------------------------------------------------------
(* Outcomes of a call: a returned value or a raised exception.             *)

NoResponse == [net |-> "none", status_code |-> 0, body |-> NotJson]

Raise(exc, msg) ==
    [kind |-> "raise", exc |-> exc, msg |-> msg,
     response |-> NoResponse, json |-> NotJson]

\* return response
ReturnResponse(response) ==
    [kind |-> "return", exc |-> "", msg |-> "",
     response |-> response, json |-> NotJson]

\* return response.json(): requests raises ValueError on a body that is not JSON
ReturnJson(response) ==
    IF response.body.valid
    THEN [kind |-> "return", exc |-> "", msg |-> "",
          response |-> NoResponse, json |-> response.body]
    ELSE Raise("ValueError", "No JSON object could be decoded")

NoOutcome == [kind |-> "none", exc |-> "", msg |-> "",
              response |-> NoResponse, json |-> NotJson]

----------------------------------------------------------------------------
(* The generic dispatch operation.                                         *)

\* getattr(requests, verb.lower())
get_http_method(verb) ==
    CASE verb = "GET" -> "get"
      [] verb = "POST" -> "post"
      [] verb = "PUT" -> "put"
      [] verb = "DELETE" -> "delete"

\* Pwinty._get_error_message: the message, or the exception the parsing raises.
get_error_message(response) ==
    LET body == response.body
        error_truthy == body.err \notin {"absent", "null"} /\ ~body.errEmpty
    IN  IF ~body.valid
        THEN Raise("ValueError", "No JSON object could be decoded")
        ELSE IF body.top # "object"
        THEN Raise("AttributeError", "'list' object has no attribute 'get'")
        ELSE IF error_truthy /\ body.hasMsg
        THEN IF body.err = "object"
             THEN Raise("PwintyError", body.msg)
             ELSE Raise("AttributeError", "'str' object has no attribute 'get'")
        ELSE Raise("PwintyError", "An unknown error occurred")

\* The status-code ladder of _call_api (lines 68-75).
StatusOutcome(response) ==
    IF response.status_code = 401
    THEN Raise("PwintyError", "Authentication Failed")
    ELSE IF response.status_code = 404
    THEN Raise("PwintyError", "The specified resource could not be found")
    ELSE IF response.status_code = 400 \/ response.status_code >= 500
    THEN get_error_message(response)
    ELSE ReturnResponse(response)

NoKwargs == [k \in {} |-> None]

\* Mutation of Request: the named parameters go to the query string
\* (params=kwargs), the form data stays empty.
Request_as_query(self_api, self_headers, method, path, files, kwargs) ==
    [method |-> get_http_method(method), url |-> self_api \o path,
     data |-> NoKwargs, files |-> files, headers |-> self_headers]

\* Mutation of Request: the merchant header is not sent.
Request_without_merchant(self_api, self_headers, method, path, files, kwargs) ==
    [method |-> get_http_method(method), url |-> self_api \o path,
     data |-> kwargs, files |-> files,
     headers |-> [k \in {"X-Pwinty-REST-API-Key"} |-> self_headers[k]]]

\* The request _call_api hands to the transport function.
Request(self_api, self_headers, method, path, files, kwargs) ==
    [method |-> get_http_method(method), url |-> self_api \o path,
     data |-> kwargs, files |-> files, headers |-> self_headers]

\* Pwinty._call_api: the requests issued and the outcome.
call_api(self_api, self_headers, method, path, files, kwargs, response) ==
    [requests |-> <<Request(self_api, self_headers, method, path, files, kwargs)>>,
     response |-> response,
     outcome |-> IF response.net # "ok"
                 THEN Raise(response.net, "")
                 ELSE StatusOutcome(response)]

----------------------------------------------------------------------------
(* Endpoint methods.  Each yields the requests issued, the response the    *)
(* transport gave (NoResponse when none was asked for) and the outcome.    *)

NoRequest(outcome) == [requests |-> <<>>, response |-> NoResponse, outcome |-> outcome]

\* return self._call_api(...).json()
Decoded(r) ==
    IF r.outcome.kind = "raise" THEN r
    ELSE [r EXCEPT !.outcome = ReturnJson(r.outcome.response)]

\* Mutation of Forbidden: the 403 check left out.
Forbidden_unchecked(r, msg) == Decoded(r)

\* if response.status_code == 403: raise PwintyError(msg)
\* return response.json()
Forbidden(r, msg) ==
    IF r.outcome.kind = "raise" THEN r
    ELSE IF r.outcome.response.status_code = 403
    THEN [r EXCEPT !.outcome = Raise("PwintyError", msg)]
    ELSE [r EXCEPT !.outcome = ReturnJson(r.outcome.response)]

\* self._call_api(method, path, **kwargs): a keyword named like one of
\* _call_api's own parameters binds to that parameter, not to **kwargs.
DataOf(kwargs) == [k \in (DOMAIN kwargs) \ {"files"} |-> kwargs[k]]

FilesOf(kwargs) == IF "files" \in DOMAIN kwargs THEN kwargs["files"] ELSE None

forward(self_api, self_headers, method, path, kwargs, response) ==
    IF (DOMAIN kwargs) \cap {"method", "api"} # {}
    THEN NoRequest(Raise("TypeError", "_call_api() got multiple values for argument"))
    ELSE call_api(self_api, self_headers, method, path,
                  FilesOf(kwargs), DataOf(kwargs), response)

get_orders(self_api, self_headers, response) ==
    Decoded(call_api(self_api, self_headers, "GET", "/Orders", None, NoKwargs, response))

get_order(self_api, self_headers, order_id, response) ==
    Decoded(call_api(self_api, self_headers, "GET",
                     "/Orders/" \o Format(order_id), None, NoKwargs, response))

create_order(self_api, self_headers, kwargs, response) ==
    Decoded(forward(self_api, self_headers, "POST", "/Orders", kwargs, response))

\* A keyword named order_id collides with update_order's own parameter.
update_order(self_api, self_headers, order_id, kwargs, response) ==
    IF "order_id" \in DOMAIN kwargs
    THEN NoRequest(Raise("TypeError", "update_order() got multiple values for argument"))
    ELSE Forbidden(forward(self_api, self_headers, "PUT",
                           "/Orders/" \o Format(order_id), kwargs, response),
                   "Order submitted and can not be updated")

update_order_status(self_api, self_headers, order_id, status, response) ==
    Forbidden(call_api(self_api, self_headers, "POST",
                       "/Orders/" \o Format(order_id) \o "/Status", None,
                       ("status" :> status), response),
              "Can not move to specified status from current")

get_submission_status(self_api, self_headers, order_id, response) ==
    Decoded(call_api(self_api, self_headers, "GET",
                     "/Orders/" \o Format(order_id) \o "/SubmissionStatus",
                     None, NoKwargs, response))

get_countries(self_api, self_headers, response) ==
    Decoded(call_api(self_api, self_headers, "GET", "/Country", None, NoKwargs, response))

get_photos(self_api, self_headers, order_id, response) ==
    Decoded(call_api(self_api, self_headers, "GET",
                     "/Orders/" \o Format(order_id) \o "/Photos",
                     None, NoKwargs, response))

get_photo(self_api, self_headers, order_id, photo_id, response) ==
    Decoded(call_api(self_api, self_headers, "GET",
                     "/Orders/" \o Format(order_id) \o "/Photos/" \o Format(photo_id),
                     None, NoKwargs, response))

delete_photo(self_api, self_headers, order_id, photo_id, response) ==
    Forbidden(call_api(self_api, self_headers, "DELETE",
                       "/Orders/" \o Format(order_id) \o "/Photos/" \o Format(photo_id),
                       None, NoKwargs, response),
              "Cannot remove photos from this order")

get_catalogue(self_api, self_headers, country_code, quality_level, response) ==
    Decoded(call_api(self_api, self_headers, "GET",
                     "/Catalogue/" \o Format(country_code) \o "/" \o Format(quality_level),
                     None, NoKwargs, response))

----------------------------------------------------------------------------
(* add_photo                                                               *)

\* Mutation of add_photo_validation: only the missing source is rejected.
add_photo_validation_neither_only(url, imgfile) ==
    IF url = None /\ imgfile = None
    THEN Raise("PwintyError", "File or URL for the image is required")
    ELSE NoOutcome

\* The precondition on the image source (lines 167-170).
add_photo_validation(url, imgfile) ==
    IF url = None /\ imgfile = None
    THEN Raise("PwintyError", "File or URL for the image is required")
    ELSE IF url # None /\ imgfile # None
    THEN Raise("PwintyError", "Cannot use both a URL and a file")
    ELSE NoOutcome

\* The body of the request (lines 173-180).
add_photo_data(ptype, url, copies, sizing, price_to_user, md5hash) ==
    ("type" :> ptype) @@ ("url" :> url)
        @@ ("copies" :> Or(copies, IntV(1)))
        @@ ("sizing" :> Or(sizing, StrV("Crop")))
        @@ ("priceToUser" :> price_to_user) @@ ("md5Hash" :> md5hash)

\* if imgfile: files = {'file': open(imgfile, 'r')}
add_photo_files(imgfile) == IF Truthy(imgfile) THEN FileDict(imgfile.s) ELSE None

\* Pwinty.add_photo.  can_open: open(imgfile) succeeds (it raises IOError
\* otherwise).  opened: the file handles the call has opened.
add_photo(self_api, self_headers, order_id, ptype, url, copies, sizing, price_to_user, md5hash, imgfile, can_open, response) ==
    LET invalid == add_photo_validation(url, imgfile)
        files == add_photo_files(imgfile)
        r == Forbidden(call_api(self_api, self_headers, "POST",
                                "/Orders/" \o Format(order_id) \o "/Photos", files,
                                add_photo_data(ptype, url, copies, sizing,
                                               price_to_user, md5hash),
                                response),
                       "Cannot add photos to this order")
    IN  IF invalid.kind = "raise"
        THEN [requests |-> <<>>, response |-> NoResponse, outcome |-> invalid,
              opened |-> 0]
        ELSE IF files # None /\ ~can_open
        THEN [requests |-> <<>>, response |-> NoResponse,
              outcome |-> Raise("IOError", "No such file or directory"),
              opened |-> 0]
        ELSE [requests |-> r.requests, response |-> r.response,
              outcome |-> r.outcome,
              opened |-> IF files # None THEN 1 ELSE 0]

\* The handles a call leaves open when it exits.  add_photo never closes the
\* file it opened: the handle is released only if the runtime has finalized
\* the unreferenced file object by then.
HandlesLeft(opened, finalized) == IF finalized THEN 0 ELSE opened

----------------------------------------------------------------------------
(* The state machine: a client is constructed, then its methods are called *)
(* one after the other.                                                    *)

CallerKwargs(names, values) == UNION {[S -> values] : S \in SUBSET names}

\* Named fields a caller forwards through create_order / update_order.
OrderFields ==
    CallerKwargs({"address", "order_id", "files", "method"}, {StrV("123 Fake St")})

\* Named parameters of a direct call of the dispatch operation.
DispatchFields ==
    CallerKwargs({"address", "order_id"}, {StrV("123 Fake St"), IntV(23)})

Urls == {None, StrV(""), StrV("http://example.com/p.jpg")}
ImgFiles == {None, StrV(""), StrV("p.jpg")}
Copies == {None, IntV(0), IntV(2)}
Sizings == {None, StrV(""), StrV("ShrinkToFit")}

NoCall == [op |-> "none", args |-> <<>>, requests |-> <<>>,
           response |-> NoResponse, outcome |-> NoOutcome,
           opened |-> 0, left |-> 0]

Init ==
    /\ \E merchant_id \in MerchantIds, apikey \in ApiKeys,
          version \in Versions, sandbox \in Sandboxes :
        /\ ctor = [merchant_id |-> merchant_id, apikey |-> apikey,
                   version |-> version, sandbox |-> sandbox]
        /\ api = BaseUrl(Param(version, None), Param(sandbox, BoolV(TRUE)))
        /\ headers = AuthHeaders(merchant_id, apikey)
    /\ pc = "idle"
    /\ call = NoCall
    /\ openFiles = 0

\* A call of method op with arguments args exits with result r.
Exit(op, args, r, opened, left) ==
    /\ pc' = "done"
    /\ call' = [op |-> op, args |-> args, requests |-> r.requests,
                response |-> r.response, outcome |-> r.outcome,
                opened |-> opened, left |-> left]
    /\ openFiles' = openFiles + left
    /\ UNCHANGED <<ctor, api, headers>>

CallApi ==
    /\ pc = "idle"
    /\ \E method \in Verbs, path \in {"", "/Orders"}, kwargs \in DispatchFields,
          response \in Responses :
        Exit("_call_api", [method |-> method, path |-> path, kwargs |-> kwargs],
             call_api(api, headers, method, path, None, kwargs, response), 0, 0)

GetOrders ==
    /\ pc = "idle"
    /\ \E response \in Responses :
        Exit("get_orders", <<>>, get_orders(api, headers, response), 0, 0)

GetOrder ==
    /\ pc = "idle"
    /\ \E order_id \in OrderIds, response \in Responses :
        Exit("get_order", [order_id |-> order_id],
             get_order(api, headers, order_id, response), 0, 0)

CreateOrder ==
    /\ pc = "idle"
    /\ \E kwargs \in OrderFields, response \in Responses :
        Exit("create_order", [kwargs |-> kwargs],
             create_order(api, headers, kwargs, response), 0, 0)

UpdateOrder ==
    /\ pc = "idle"
    /\ \E order_id \in OrderIds, kwargs \in OrderFields, response \in Responses :
        Exit("update_order", [order_id |-> order_id, kwargs |-> kwargs],
             update_order(api, headers, order_id, kwargs, response), 0, 0)

UpdateOrderStatus ==
    /\ pc = "idle"
    /\ \E order_id \in OrderIds, status \in {StrV("Submitted")},
          response \in Responses :
        Exit("update_order_status", [order_id |-> order_id, status |-> status],
             update_order_status(api, headers, order_id, status, response), 0, 0)

GetSubmissionStatus ==
    /\ pc = "idle"
    /\ \E order_id \in OrderIds, response \in Responses :
        Exit("get_submission_status", [order_id |-> order_id],
             get_submission_status(api, headers, order_id, response), 0, 0)

GetCountries ==
    /\ pc = "idle"
    /\ \E response \in Responses :
        Exit("get_countries", <<>>, get_countries(api, headers, response), 0, 0)

GetPhotos ==
    /\ pc = "idle"
    /\ \E order_id \in OrderIds, response \in Responses :
        Exit("get_photos", [order_id |-> order_id],
             get_photos(api, headers, order_id, response), 0, 0)

GetPhoto ==
    /\ pc = "idle"
    /\ \E order_id \in OrderIds, photo_id \in PhotoIds, response \in Responses :
        Exit("get_photo", [order_id |-> order_id, photo_id |-> photo_id],
             get_photo(api, headers, order_id, photo_id, response), 0, 0)

AddPhoto ==
    /\ pc = "idle"
    /\ \E order_id \in OrderIds, url \in Urls, imgfile \in ImgFiles,
          copies \in Copies, sizing \in Sizings,
          exists \in BOOLEAN, finalized \in BOOLEAN, response \in Responses :
        LET r == add_photo(api, headers, order_id, StrV("4x6"), url, copies,
                           sizing, None, None, imgfile,
                           exists /\ openFiles < MaxOpenFiles, response)
        IN  Exit("add_photo",
                 [order_id |-> order_id, url |-> url, imgfile |-> imgfile,
                  copies |-> copies, sizing |-> sizing],
                 r, r.opened, HandlesLeft(r.opened, finalized))

DeletePhoto ==
    /\ pc = "idle"
    /\ \E order_id \in OrderIds, photo_id \in PhotoIds, response \in Responses :
        Exit("delete_photo", [order_id |-> order_id, photo_id |-> photo_id],
             delete_photo(api, headers, order_id, photo_id, response), 0, 0)

GetCatalogue ==
    /\ pc = "idle"
    /\ \E response \in Responses :
        Exit("get_catalogue", <<>>,
             get_catalogue(api, headers, StrV("GB"), StrV("Pro"), response), 0, 0)

\* The result has reached the caller; nothing of the call is kept.
Return ==
    /\ pc = "done"
    /\ pc' = "idle"
    /\ call' = NoCall
    /\ UNCHANGED <<ctor, api, headers, openFiles>>

Next ==
    \/ CallApi
    \/ GetOrders
    \/ GetOrder
    \/ CreateOrder
    \/ UpdateOrder
    \/ UpdateOrderStatus
    \/ GetSubmissionStatus
    \/ GetCountries
    \/ GetPhotos
    \/ GetPhoto
    \/ AddPhoto
    \/ DeletePhoto
    \/ GetCatalogue
    \/ Return

Spec == Init /\ [][Next]_vars

----------------------------------------------------------------------------
(* Properties.                                                             *)

Exited(op) == pc = "done" /\ call.op = op

\* A call that issued a request and got a response (not a transport failure).
Answered == pc = "done" /\ call.requests # <<>> /\ call.response.net = "ok"

RaisedPwintyError(msg) ==
    /\ call.outcome.kind = "raise"
    /\ call.outcome.exc = "PwintyError"
    /\ call.outcome.msg = msg

\* C1: the dispatch operation fails with "Authentication Failed" on 401, with
\* "The specified resource could not be found" on 404, with the client's API
\* error on 400 and on every code >= 500, and on every other status raises
\* nothing and returns the response object itself.
C1_DispatchStatusLadder ==
    (Exited("_call_api") /\ Answered) =>
        LET status == call.response.status_code
        IN  /\ status = 401 => RaisedPwintyError("Authentication Failed")
            /\ status = 404 =>
                   RaisedPwintyError("The specified resource could not be found")
            /\ (status = 400 \/ status >= 500) =>
                   /\ call.outcome.kind = "raise"
                   /\ call.outcome.exc = "PwintyError"
            /\ (status \notin {400, 401, 404} /\ status < 500) =>
                   /\ call.outcome.kind = "return"
                   /\ call.outcome.response = call.response

\* C2: add_photo with neither url nor imgfile, or with both, fails with the
\* validation error, issues no HTTP request and opens no file, whatever the
\* other arguments are.
C2_ValidationBeforeNetwork ==
    Exited("add_photo") =>
        /\ (call.args.url = None /\ call.args.imgfile = None) =>
               /\ RaisedPwintyError("File or URL for the image is required")
               /\ call.requests = <<>>
               /\ call.opened = 0
        /\ (call.args.url # None /\ call.args.imgfile # None) =>
               /\ RaisedPwintyError("Cannot use both a URL and a file")
               /\ call.requests = <<>>
               /\ call.opened = 0

\* C2 witness: add_photo was called with both a url and an image file, with
\* copies and sizing given, and has failed.
C2_Witness ==
    /\ Exited("add_photo")
    /\ call.args.url = StrV("http://example.com/p.jpg")
    /\ call.args.imgfile = StrV("p.jpg")
    /\ call.args.copies = IntV(2)
    /\ call.outcome.kind = "raise"

Message403(op) ==
    CASE op = "update_order" -> "Order submitted and can not be updated"
      [] op = "update_order_status" -> "Can not move to specified status from current"
      [] op = "add_photo" -> "Cannot add photos to this order"
      [] op = "delete_photo" -> "Cannot remove photos from this order"

\* C3: on a 403 response update_order, update_order_status, add_photo and
\* delete_photo each raise their own error and return no decoded body; the
\* dispatch operation returns the response, and the other endpoints raise no
\* client error.
C3_ForbiddenPerEndpoint ==
    (Answered /\ call.response.status_code = 403) =>
        /\ call.op \in {"update_order", "update_order_status", "add_photo",
                        "delete_photo"} =>
               RaisedPwintyError(Message403(call.op))
        /\ call.op = "_call_api" =>
               /\ call.outcome.kind = "return"
               /\ call.outcome.response = call.response
        /\ call.op \in {"get_orders", "get_order", "create_order",
                        "get_submission_status", "get_countries", "get_photos",
                        "get_photo", "get_catalogue"} =>
               ~(call.outcome.kind = "raise" /\ call.outcome.exc = "PwintyError")

\* C3 witness: delete_photo got a 403 whose body is valid JSON, and raised.
C3_Witness ==
    /\ Exited("delete_photo")
    /\ Answered
    /\ call.response.status_code = 403
    /\ call.response.body = NoErrorKey
    /\ call.outcome.kind = "raise"

\* The path each method asks for (section 6 of the specification).
PathOf(op, args) ==
    CASE op = "_call_api" -> args.path
      [] op \in {"get_orders", "create_order"} -> "/Orders"
      [] op \in {"get_order", "update_order"} -> "/Orders/" \o Format(args.order_id)
      [] op = "update_order_status" -> "/Orders/" \o Format(args.order_id) \o "/Status"
      [] op = "get_submission_status" ->
             "/Orders/" \o Format(args.order_id) \o "/SubmissionStatus"
      [] op = "get_countries" -> "/Country"
      [] op \in {"get_photos", "add_photo"} ->
             "/Orders/" \o Format(args.order_id) \o "/Photos"
      [] op \in {"get_photo", "delete_photo"} ->
             "/Orders/" \o Format(args.order_id) \o "/Photos/" \o Format(args.photo_id)
      [] op = "get_catalogue" -> "/Catalogue/GB/Pro"

HostOf(sandbox) == IF sandbox = BoolV(FALSE) THEN "api" ELSE "sandbox"

VersionOf(version) == IF version = Omitted THEN "v2" ELSE version.s

\* C4: after any sequence of calls the base URL and the headers are those
\* computed at construction, and every request issued goes to base URL + path
\* with exactly the two headers X-Pwinty-REST-API-Key and X-Pwinty-MerchantId
\* holding the API key and the merchant ID given to the constructor.
C4_ConfigurationNeverChanges ==
    /\ api = "https://" \o HostOf(ctor.sandbox) \o ".pwinty.com/" \o VersionOf(ctor.version)
    /\ DOMAIN headers = {"X-Pwinty-REST-API-Key", "X-Pwinty-MerchantId"}
    /\ headers["X-Pwinty-REST-API-Key"] = ctor.apikey
    /\ headers["X-Pwinty-MerchantId"] = ctor.merchant_id
    /\ \A n \in DOMAIN call.requests :
        /\ call.requests[n].url = api \o PathOf(call.op, call.args)
        /\ DOMAIN call.requests[n].headers
               = {"X-Pwinty-REST-API-Key", "X-Pwinty-MerchantId"}
        /\ call.requests[n].headers["X-Pwinty-REST-API-Key"] = ctor.apikey
        /\ call.requests[n].headers["X-Pwinty-MerchantId"] = ctor.merchant_id

\* C4 witness: a request of a failing call, issued after earlier add_photo
\* calls (they left handles open), by a client of merchant M2.
C4_Witness ==
    /\ Exited("get_order")
    /\ Answered
    /\ call.outcome.kind = "raise"
    /\ openFiles = 2
    /\ ctor.merchant_id = "M2"

\* C5: no file handle opened by add_photo remains open when add_photo exits,
\* whether it returns or raises.
C5_FileClosedOnExit ==
    (Exited("add_photo") /\ call.opened > 0) => call.left = 0

\* C6 as stated: the form data of the request is exactly the mapping of named
\* parameters the caller passed to the dispatch operation, to create_order or
\* to update_order.
C6_BodyForwardedUnchanged ==
    (pc = "done" /\ call.op \in {"_call_api", "create_order", "update_order"}) =>
        /\ Len(call.requests) = 1
        /\ call.requests[1].data = call.args.kwargs

\* Names a keyword cannot carry into the body: they bind to a parameter of
\* the method called or of the dispatch operation it forwards to.
ParameterNames(op) ==
    CASE op = "_call_api" -> {}
      [] op = "create_order" -> {"self", "method", "api", "files"}
      [] op = "update_order" -> {"self", "order_id", "method", "api", "files"}

\* C6 amended: the same, for named parameters none of which carries the name
\* of a parameter of the method called or of the dispatch operation (self,
\* order_id of update_order, method, api, files).
C6_BodyForwardedUnlessReserved ==
    (/\ pc = "done"
     /\ call.op \in {"_call_api", "create_order", "update_order"}
     /\ (DOMAIN call.args.kwargs) \cap ParameterNames(call.op) = {}) =>
        /\ Len(call.requests) = 1
        /\ call.requests[1].data = call.args.kwargs

\* C6 witness: create_order forwarded two named fields as the form data.
C6_Witness ==
    /\ Exited("create_order")
    /\ call.args.kwargs = ("address" :> StrV("123 Fake St")) @@ ("order_id" :> StrV("123 Fake St"))
    /\ Len(call.requests) = 1
    /\ call.requests[1].data = call.args.kwargs

\* C7: add_photo with exactly one image source issues one POST on
\* /Orders/{id}/Photos with copies = 1 when copies is omitted, sizing = "Crop"
\* when sizing is omitted, and the supplied value when one is supplied.
C7_DefaultsOnlyWhenOmitted ==
    (/\ Exited("add_photo")
     /\ (call.args.url = None) # (call.args.imgfile = None)
     /\ call.requests # <<>>) =>
        /\ Len(call.requests) = 1
        /\ call.requests[1].method = "post"
        /\ call.requests[1].url = api \o "/Orders/" \o Format(call.args.order_id) \o "/Photos"
        /\ call.requests[1].data["copies"] =
               (IF call.args.copies = None THEN IntV(1) ELSE call.args.copies)
        /\ call.requests[1].data["sizing"] =
               (IF call.args.sizing = None THEN StrV("Crop") ELSE call.args.sizing)

\* The vendor message Error.Message is present in the JSON body.
MessagePresent(body) ==
    body.valid /\ body.top = "object" /\ body.err = "object" /\ body.hasMsg

\* C8: when dispatch fails on 400 or >= 500 the failure is the client's API
\* error, carrying Error.Message of the JSON body when that field is present
\* and the generic "unknown error" message in every other case.
C8_ErrorMessageOrFallback ==
    (Answered /\ (call.response.status_code = 400 \/ call.response.status_code >= 500)) =>
        RaisedPwintyError(IF MessagePresent(call.response.body)
                          THEN call.response.body.msg
                          ELSE "An unknown error occurred")

\* C9: the base URL is https://sandbox.pwinty.com/<version> when sandbox is
\* true or not given, https://api.pwinty.com/<version> when it is false, with
\* <version> = "v2" when no version is given and the given version otherwise.
C9_BaseUrl ==
    /\ (ctor.sandbox \in {Omitted, BoolV(TRUE)} /\ ctor.version = Omitted) =>
           api = "https://sandbox.pwinty.com/v2"
    /\ (ctor.sandbox \in {Omitted, BoolV(TRUE)} /\ ctor.version # Omitted) =>
           api = "https://sandbox.pwinty.com/" \o ctor.version.s
    /\ (ctor.sandbox = BoolV(FALSE) /\ ctor.version = Omitted) =>
           api = "https://api.pwinty.com/v2"
    /\ (ctor.sandbox = BoolV(FALSE) /\ ctor.version # Omitted) =>
           api = "https://api.pwinty.com/" \o ctor.version.s

\* C9 witness: the production client of version v3, after a call.
C9_Witness ==
    /\ ctor.sandbox = BoolV(FALSE)
    /\ ctor.version = StrV("v3")
    /\ api = "https://api.pwinty.com/v3"
    /\ pc = "done"

\* C10: every request add_photo issues carries exactly one image source: a
\* non-null url and no file attachment, or an attachment named "file" and a
\* null url.
C10_ExactlyOneImageSource ==
    Exited("add_photo") =>
        \A n \in DOMAIN call.requests :
            \/ /\ call.requests[n].data["url"] # None
               /\ call.requests[n].files = None
            \/ /\ call.requests[n].data["url"] = None
               /\ call.requests[n].files.t = "filedict"

====
